---- MODULE Spec2Model ----
(***************************************************************************)
(* A model of guidance/models/_mock.py: the ByteTrie, the greedy           *)
(* MockTokenizer built on it, and the MockEngine that synthesises logits   *)
(* and walks a token sequence for per-token top-k probabilities.           *)
(*                                                                         *)
(* Byte strings are sequences of byte values (0..255).  A trie is a        *)
(* function from the byte path of a node to that node's fields; the root   *)
(* is the empty path.  Scores are integers in units of 1/64, with NegInf   *)
(* standing for float -inf; probabilities given to compute_probs are whole *)
(* units, sums being exact.                                                *)
(***************************************************************************)
EXTENDS Integers, Sequences, FiniteSets, TLC

VARIABLES tokens, byte_trie, first, force, byte_patterns, rng, log, op, calls,
          argsort_ties

vars == <<tokens, byte_trie, first, force, byte_patterns, rng, log, op, calls,
          argsort_ties>>

(***************************************************************************)
(* Byte strings                                                            *)
(***************************************************************************)
\* bytes.startswith
StartsWith(s, t) ==
    /\ Len(t) <= Len(s)
    /\ SubSeq(s, 1, Len(t)) = t

\* s[n:]
Drop(s, n) == SubSeq(s, n + 1, Len(s))

Range(f) == {f[x] : x \in DOMAIN f}

RECURSIVE SumOver(_, _)
SumOver(S, f) ==
    IF S = {} THEN 0
    ELSE LET x == CHOOSE y \in S : TRUE
         IN  f[x] + SumOver(S \ {x}, f)

RECURSIVE SeqsUpTo(_, _)
SeqsUpTo(S, n) ==
    IF n = 0 THEN {<<>>}
    ELSE LET R == SeqsUpTo(S, n - 1)
         IN  R \cup {Append(r, x) : r \in {q \in R : Len(q) = n - 1}, x \in S}

(***************************************************************************)
(* ByteTrie                                                                *)
(***************************************************************************)
NoValue == -1

\* ByteTrie.__init__ with no byte strings: prob = 0, value = -1, no children
NewNode == [value |-> NoValue, prob |-> 0]

EmptyTrie == (<<>> :> NewNode)

\* ByteTrie.has_child / ByteTrie.child, for the node at path n
has_child(t, n, byte) == Append(n, byte) \in DOMAIN t

child(n, byte) == Append(n, byte)

Children(t, n) == {c \in DOMAIN t : Len(c) = Len(n) + 1 /\ StartsWith(c, n)}

Subtree(t, n) == {c \in DOMAIN t : StartsWith(c, n)}

\* the assignment at the terminal node of insert
SetValueOverwrite(old, value) == value

SetValue(old, value) == IF old < 0 THEN value ELSE old

\* ByteTrie.insert, called on the node at path n
RECURSIVE insert(_, _, _, _, _)
insert(t, n, s, value, pos) ==
    IF Len(s) <= pos
    THEN [t EXCEPT ![n].value = SetValue(@, value)]
    ELSE LET first_byte == s[pos + 1]
             c == child(n, first_byte)
             t1 == IF has_child(t, n, first_byte) THEN t ELSE t @@ (c :> NewNode)
         IN  insert(t1, c, s, value, pos + 1)

\* the value self.prob starts from in compute_probs
ResetProbKeep(old) == old

ResetProb(old) == 0

\* the test self.value != -1 of compute_probs
HasValuePositive(value) == value > 0

HasValue(value) == value # -1

\* ByteTrie.compute_probs, called on the node at path n; probs is indexed
\* by token id.  The result is the trie with the prob fields of n's subtree
\* rewritten.
RECURSIVE compute_probs(_, _, _)
RECURSIVE compute_children(_, _, _, _)
compute_probs(t, n, probs) ==
    LET t0 == [t EXCEPT ![n].prob = ResetProb(@)]
        t1 == IF HasValue(t0[n].value)
              THEN [t0 EXCEPT ![n].prob = @ + probs[t0[n].value]]
              ELSE t0
    IN  compute_children(t1, n, Children(t1, n), probs)

\* the loop over self.children of compute_probs
compute_children(t, n, todo, probs) ==
    IF todo = {} THEN t
    ELSE LET k == CHOOSE c \in todo : TRUE
             t1 == compute_probs(t, k, probs)
             t2 == [t1 EXCEPT ![n].prob = @ + t1[k].prob]
         IN  compute_children(t2, n, todo \ {k}, probs)

\* ByteTrie.__init__ with byte strings and values: insert each in order
RECURSIVE BuildTrie(_, _, _)
BuildTrie(t, byte_strings, i) ==
    IF i > Len(byte_strings) THEN t
    ELSE BuildTrie(insert(t, <<>>, byte_strings[i], i - 1, 0), byte_strings, i + 1)

(***************************************************************************)
(* SpecTrie: a ByteTrie driven by insert and compute_probs calls           *)
(***************************************************************************)
MaxTrieOps == 3

TrieBytes == {97, 98}
TrieKeys == SeqsUpTo(TrieBytes, 2)
TrieValues == 0 .. 1
ProbVectors == [TrieValues -> 0 .. 2]

NoOp == [name |-> "none"]

InitTrie ==
    /\ byte_trie = EmptyTrie
    /\ first = <<>>
    /\ op = NoOp
    /\ calls = 0
    /\ tokens = <<>>
    /\ force = FALSE
    /\ byte_patterns = <<>>
    /\ rng = <<>>
    /\ log = <<>>
    /\ argsort_ties = "index"

\* root.insert(s, value)
TrieInsert(s, value) ==
    /\ calls < MaxTrieOps
    /\ byte_trie' = insert(byte_trie, <<>>, s, value, 0)
    /\ first' = IF s \in DOMAIN first THEN first ELSE first @@ (s :> value)
    /\ op' = [name |-> "insert", s |-> s, value |-> value,
              again |-> s \in DOMAIN first]
    /\ calls' = calls + 1
    /\ UNCHANGED <<tokens, force, byte_patterns, rng, log, argsort_ties>>

\* node.compute_probs(probs) for the node at path n
TrieComputeProbs(n, probs) ==
    /\ calls < MaxTrieOps
    /\ n \in DOMAIN byte_trie
    /\ byte_trie' = compute_probs(byte_trie, n, probs)
    /\ op' = [name |-> "compute_probs", node |-> n, probs |-> probs,
              before |-> byte_trie[n].prob]
    /\ calls' = calls + 1
    /\ UNCHANGED <<first, tokens, force, byte_patterns, rng, log, argsort_ties>>

NextTrie ==
    \/ \E s \in TrieKeys, value \in TrieValues : TrieInsert(s, value)
    \/ \E n \in TrieKeys, probs \in ProbVectors : TrieComputeProbs(n, probs)

SpecTrie == InitTrie /\ [][NextTrie]_vars

\* C7: after any inserts with non-negative values the node reached by a byte
\* string holds the value of the first insert of that string, and an insert
\* of a string inserted before changes no node's value and no node.
FirstInsertWins ==
    /\ [](\A s \in DOMAIN first :
            s \in DOMAIN byte_trie /\ byte_trie[s].value = first[s])
    /\ [][(op'.name = "insert" /\ op'.again)
            => (DOMAIN byte_trie' = DOMAIN byte_trie
                /\ \A n \in DOMAIN byte_trie :
                      byte_trie'[n].value = byte_trie[n].value)]_vars

\* a string has been inserted a second time with another value
WitnessReinsert ==
    /\ op.name = "insert"
    /\ op.again
    /\ op.value # first[op.s]

\* the terminal nodes of the subtree of n
Terminals(t, n) == {c \in Subtree(t, n) : t[c].value # NoValue}

SubtreeMass(t, n, probs) ==
    SumOver(Terminals(t, n), [c \in Terminals(t, n) |-> probs[t[c].value]])

\* C9: after a compute_probs call every node it covers holds the sum of
\* probs[value] over the terminal nodes of its subtree, for the probs of
\* that call only, whatever earlier calls left in the prob fields.
ProbIsSubtreeMass ==
    op.name = "compute_probs" =>
        \A n \in Subtree(byte_trie, op.node) :
            byte_trie[n].prob = SubtreeMass(byte_trie, n, op.probs)

\* compute_probs on a root whose prob an earlier call left nonzero, with
\* another probs vector
WitnessRecompute ==
    /\ op.name = "compute_probs"
    /\ op.node = <<>>
    /\ op.before > 0
    /\ Cardinality(DOMAIN byte_trie) >= 2
    /\ byte_trie[<<>>].prob > 0
    /\ byte_trie[<<>>].prob # op.before

(***************************************************************************)
(* Token tables                                                            *)
(***************************************************************************)
\* The byte values the model keeps of the 256: '<', '>', 'a', 'b', 's' and
\* one byte that is no UTF-8 text on its own.
Alphabet == {60, 62, 97, 98, 115, 200}

RECURSIVE SortedSeq(_)
SortedSeq(S) ==
    IF S = {} THEN <<>>
    ELSE LET m == CHOOSE x \in S : \A y \in S : x <= y
         IN  <<m>> \o SortedSeq(S \ {m})

RECURSIVE Flatten(_)
Flatten(ss) == IF ss = <<>> THEN <<>> ELSE Head(ss) \o Flatten(Tail(ss))

\* range(ord("a"), ord("z")): 'a' .. 'y'
LcRange == {b \in Alphabet : 97 <= b /\ b < 122}

\* all_lc_pairs, all_bytes and tokens of Mock.__init__
all_lc_pairs ==
    LET lc == SortedSeq(LcRange)
    IN  Flatten([i \in 1 .. Len(lc) |-> [j \in 1 .. Len(lc) |-> <<lc[i], lc[j]>>]])

all_bytes ==
    LET bs == SortedSeq(Alphabet)
    IN  [i \in 1 .. Len(bs) |-> <<bs[i]>>]

MockTokens == <<(<<60, 115, 62>>)>> \o all_lc_pairs \o all_bytes

\* Other tables a MockTokenizer can be built from: "a", "ab", "b"; a table
\* with a repeated entry and a token whose proper prefix "ab" is no token;
\* a table without the single byte "b"; a table with an empty entry.
TokenTables ==
    { MockTokens,
      << <<97>>, <<97, 98>>, <<98>> >>,
      << <<98>>, <<97>>, <<98>>, <<97, 98, 97>> >>,
      << <<97, 98>>, <<97>> >>,
      << <<>>, <<97>>, <<97>> >> }

TokenIds(toks) == 0 .. Len(toks) - 1

\* self.tokens[i] for a 0-based token id
Tok(toks, i) == toks[i + 1]

\* MockTokenizer.__init__: ByteTrie(self.tokens, np.arange(len(self.tokens)))
TokenizerTrie(toks) == BuildTrie(EmptyTrie, toks, 1)

\* b"".join(self.tokenizer.tokens[i] for i in token_ids)
Decode(toks, ids) == Flatten([k \in 1 .. Len(ids) |-> Tok(toks, ids[k])])

(***************************************************************************)
(* MockTokenizer.encode                                                    *)
(***************************************************************************)
None == <<>>

\* the update of last_match in the inner loop
UpdateMatchFirst(last_match, value, match_pos) ==
    IF value >= 0 /\ last_match = None THEN <<value, match_pos + 1>> ELSE last_match

UpdateMatch(last_match, value, match_pos) ==
    IF value >= 0 THEN <<value, match_pos + 1>> ELSE last_match

\* the inner while loop: the last_match it ends with
RECURSIVE Walk(_, _, _, _, _)
Walk(t, byte_string, current_node, match_pos, last_match) ==
    IF match_pos < Len(byte_string)
       /\ has_child(t, current_node, byte_string[match_pos + 1])
    THEN LET next == child(current_node, byte_string[match_pos + 1])
         IN  Walk(t, byte_string, next, match_pos + 1,
                  UpdateMatch(last_match, t[next].value, match_pos))
    ELSE [last_match |-> last_match, match_pos |-> match_pos]

\* pos = last_match[1]
NextPosWalked(w) == w.match_pos

NextPos(w) == w.last_match[2]

\* the outer while loop; steps records <<pos, id, new pos>> per emitted token
RECURSIVE EncodeFrom(_, _, _, _, _)
EncodeFrom(t, byte_string, pos, toks, steps) ==
    IF pos < Len(byte_string)
    THEN LET w == Walk(t, byte_string, <<>>, pos, None)
         IN  IF w.last_match # None
             THEN EncodeFrom(t, byte_string, NextPos(w),
                             Append(toks, w.last_match[1]),
                             Append(steps, <<pos, w.last_match[1], NextPos(w)>>))
             ELSE [error |-> "ValueError: no match", at |-> pos,
                   tokens |-> toks, steps |-> steps]
    ELSE [error |-> "none", at |-> pos, tokens |-> toks, steps |-> steps]

encode(t, byte_string, parse_special) ==
    IF ~parse_special
    THEN [error |-> "ValueError: parse_special", at |-> 0,
          tokens |-> <<>>, steps |-> <<>>]
    ELSE EncodeFrom(t, byte_string, 0, <<>>, <<>>)

\* MockTokenizer.recode
recode(ids) == ids

(***************************************************************************)
(* SpecTokenizer: a MockTokenizer over one of the token tables             *)
(***************************************************************************)
MaxInputLen == 3

ByteStrings == SeqsUpTo(Alphabet, MaxInputLen)

InitTokenizer ==
    /\ tokens \in TokenTables
    /\ byte_trie = TokenizerTrie(tokens)
    /\ op = NoOp
    /\ calls = 0
    /\ first = <<>>
    /\ force = FALSE
    /\ byte_patterns = <<>>
    /\ rng = <<>>
    /\ log = <<>>
    /\ argsort_ties = "index"

\* encode and recode read the table and their argument only: one call per
\* behaviour reaches every result
Encode(byte_string, parse_special) ==
    /\ op = NoOp
    /\ op' = [name |-> "encode", byte_string |-> byte_string,
              out |-> encode(byte_trie, byte_string, parse_special)]
    /\ UNCHANGED <<tokens, byte_trie, first, force, byte_patterns, rng, log, calls, argsort_ties>>

Recode(ids) ==
    /\ op = NoOp
    /\ op' = [name |-> "recode", byte_string |-> <<>>,
              out |-> [error |-> "none", at |-> 0, tokens |-> recode(ids),
                       steps |-> <<>>]]
    /\ UNCHANGED <<tokens, byte_trie, first, force, byte_patterns, rng, log, calls, argsort_ties>>

NextTokenizer ==
    \/ \E byte_string \in ByteStrings, parse_special \in BOOLEAN :
          Encode(byte_string, parse_special)
    \/ \E ids \in SeqsUpTo(TokenIds(tokens), 1) : Recode(ids)

SpecTokenizer == InitTokenizer /\ [][NextTokenizer]_vars

\* every byte of the alphabet is a one-byte token
HasAllBytes(toks) == \A b \in Alphabet : <<b>> \in Range(toks)

\* C4: over the Mock vocabulary encode succeeds on every byte string and the
\* bytes of the ids it returns, concatenated, are the input.
EncodeDecodeRoundTrip ==
    (tokens = MockTokens /\ op.name = "encode" /\ op.out.error # "ValueError: parse_special")
        => /\ op.out.error = "none"
           /\ Decode(tokens, op.out.tokens) = op.byte_string

\* an input on which the walk ran past the last terminal node ("<s" then a
\* byte other than ">") and a two-byte token was emitted too
WitnessRoundTrip ==
    /\ tokens = MockTokens
    /\ op.name = "encode"
    /\ op.out.error = "none"
    /\ op.byte_string = <<60, 115, 97>>
    /\ Len(op.out.tokens) = 2

\* the vocabulary entries that are a non-empty prefix of byte_string[pos:]
PrefixEntries(toks, byte_string, pos) ==
    {i \in TokenIds(toks) :
        Tok(toks, i) # <<>> /\ StartsWith(Drop(byte_string, pos), Tok(toks, i))}

\* C5: each token encode emits is the longest vocabulary entry that is a
\* prefix of the input at the scan position (the first id of those bytes),
\* the scan position advances by that entry's length, the scan starts at 0
\* and continues where the last token ended, and it fails only where no
\* entry is a prefix.
GreedyLongestMatch ==
    (op.name = "encode" /\ op.out.error # "ValueError: parse_special") =>
        LET st == op.out.steps
            bs == op.byte_string
        IN  /\ Len(st) = Len(op.out.tokens)
            /\ \A k \in 1 .. Len(st) :
                  LET pos == st[k][1]
                      id == st[k][2]
                  IN  /\ op.out.tokens[k] = id
                      /\ pos = (IF k = 1 THEN 0 ELSE st[k - 1][3])
                      /\ id \in PrefixEntries(tokens, bs, pos)
                      /\ \A j \in PrefixEntries(tokens, bs, pos) :
                            /\ Len(Tok(tokens, j)) <= Len(Tok(tokens, id))
                            /\ Tok(tokens, j) = Tok(tokens, id) => id <= j
                      /\ st[k][3] = pos + Len(Tok(tokens, id))
            /\ op.out.error = "none" =>
                  (IF st = <<>> THEN 0 ELSE st[Len(st)][3]) = Len(bs)
            /\ op.out.error = "ValueError: no match" =>
                  /\ op.out.at = (IF st = <<>> THEN 0 ELSE st[Len(st)][3])
                  /\ PrefixEntries(tokens, bs, op.out.at) = {}

\* the walk of "abb" passes the node of "ab", which is no token of the
\* table, and falls back to "a"; "b" is emitted under its first id
WitnessGreedy ==
    /\ op.name = "encode"
    /\ tokens = << <<98>>, <<97>>, <<98>>, <<97, 98, 97>> >>
    /\ op.byte_string = <<97, 98, 98>>
    /\ op.out.tokens = <<1, 0, 0>>

(***************************************************************************)
(* SpecProbs: compute_probs on the root of a tokenizer's trie, with        *)
(* probability vectors that sum to 1.0 (ProbOne units)                     *)
(***************************************************************************)
ProbOne == 2

\* the vectors over ids whose entries are whole units and sum to n
RECURSIVE Distributions(_, _)
Distributions(ids, n) ==
    IF n = 0 THEN {[i \in ids |-> 0]}
    ELSE {[v EXCEPT ![i] = @ + 1] : v \in Distributions(ids, n - 1), i \in ids}

InitProbs ==
    /\ tokens \in TokenTables
    /\ byte_trie = TokenizerTrie(tokens)
    /\ op = NoOp
    /\ calls = 0
    /\ first = <<>>
    /\ force = FALSE
    /\ byte_patterns = <<>>
    /\ rng = <<>>
    /\ log = <<>>
    /\ argsort_ties = "index"

\* self.byte_trie.compute_probs(probs), on the trie as built from the table
ComputeProbs(probs) ==
    /\ op = NoOp
    /\ byte_trie' = compute_probs(byte_trie, <<>>, probs)
    /\ op' = [name |-> "compute_probs", node |-> <<>>, probs |-> probs,
              before |-> byte_trie[<<>>].prob]
    /\ UNCHANGED <<tokens, first, force, byte_patterns, rng, log, calls, argsort_ties>>

NextProbs == \E probs \in Distributions(TokenIds(tokens), ProbOne) : ComputeProbs(probs)

SpecProbs == InitProbs /\ [][NextProbs]_vars

\* C6 as claimed: for every token table, repeated entries allowed, and every
\* probability vector that sums to 1.0, compute_probs leaves 1.0 in the
\* root's prob.
RootProbIsOne ==
    op.name = "compute_probs" => byte_trie[<<>>].prob = ProbOne

Distinct(toks) ==
    \A i, j \in 1 .. Len(toks) : toks[i] = toks[j] => i = j

\* the ids the trie holds: the first id of each entry
FirstIds(toks) ==
    {i \in TokenIds(toks) : \A j \in TokenIds(toks) : Tok(toks, j) = Tok(toks, i) => i <= j}

\* C6 amended: the root's prob is the mass of the first id of each entry,
\* which is 1.0 when the entries of the table are pairwise distinct.
RootProbIsFirstIdMass ==
    op.name = "compute_probs" =>
        /\ byte_trie[<<>>].prob =
              SumOver(FirstIds(tokens), [i \in FirstIds(tokens) |-> op.probs[i]])
        /\ Distinct(tokens) => byte_trie[<<>>].prob = ProbOne

\* compute_probs on the Mock table, the mass split over id 0 and others
WitnessRootProb ==
    /\ op.name = "compute_probs"
    /\ tokens = MockTokens
    /\ op.probs[0] = 1
    /\ op.probs[Len(tokens) - 1] = 1
    /\ byte_trie[<<>>].prob = ProbOne

(***************************************************************************)
(* MockEngine                                                              *)
(***************************************************************************)
\* bos_token_id = eos_token_id = 0; the token bytes are those of id 0
bos_token_id == 0
eos_token_id == 0
bos_token(toks) == Tok(toks, bos_token_id)
eos_token(toks) == Tok(toks, eos_token_id)

\* Does t.decode("utf8") succeed?  The well-formed UTF-8 byte sequences.
Cont(b) == 128 <= b /\ b <= 191

RECURSIVE ValidUtf8(_)
ValidUtf8(t) ==
    IF t = <<>> THEN TRUE
    ELSE LET b == t[1]
             n == IF b < 128 THEN 1
                  ELSE IF 194 <= b /\ b <= 223 THEN 2
                  ELSE IF 224 <= b /\ b <= 239 THEN 3
                  ELSE IF 240 <= b /\ b <= 244 THEN 4
                  ELSE 0
         IN  /\ n > 0
             /\ Len(t) >= n
             /\ \A k \in 2 .. n : Cont(t[k])
             /\ (b = 224) => t[2] >= 160
             /\ (b = 237) => t[2] <= 159
             /\ (b = 240) => t[2] >= 144
             /\ (b = 244) => t[2] <= 143
             /\ ValidUtf8(Drop(t, n))

\* self._valid_mask
valid_mask(toks) == [i \in TokenIds(toks) |-> IF ValidUtf8(Tok(toks, i)) THEN 1 ELSE 0]

\* Scores are in units of 1/64.  float -inf: below every score, and
\* -inf + x = -inf.
NegInf == -1000000

AddScore(x, b) == IF x = NegInf THEN NegInf ELSE x + b

\* np.random.default_rng(seed=42): a generator whose stream is fixed by the
\* seed.  The model's generator is a full-period congruential one over 64
\* states; a standard-normal draw is a score between -1.0 and 1.0.
Seed == 42

RngStep(g) == (5 * g + 3) % 64

Normal(g) == (((g \div 3) % 9) - 4) * 16

\* standard_normal(n): n draws, and the generator state after them
RECURSIVE standard_normal(_, _, _)
standard_normal(g, n, drawn) ==
    IF n = 0 THEN [values |-> drawn, state |-> g]
    ELSE standard_normal(RngStep(g), n - 1, Append(drawn, Normal(g)))

\* MockEngine._get_next_tokens: the ids it yields, in order
RECURSIVE MatchingFrom(_, _, _)
MatchingFrom(toks, byte_string, i) ==
    IF i >= Len(toks) THEN <<>>
    ELSE (IF StartsWith(byte_string, Tok(toks, i)) THEN <<i>> ELSE <<>>)
         \o MatchingFrom(toks, byte_string, i + 1)

get_next_tokens(toks, byte_string) ==
    IF StartsWith(byte_string, bos_token(toks)) THEN <<bos_token_id>>
    ELSE IF StartsWith(byte_string, eos_token(toks)) THEN <<eos_token_id>>
    ELSE MatchingFrom(toks, byte_string, 0)

\* bias = 100.0
BiasBase == 6400

\* bias /= 2
Halve(bias) == bias \div 2

\* the loop over the tokens yielded for pattern k: acc carries logits, bias
\* and the list of <<pattern, token id, bias added>>
RECURSIVE BiasTokens(_, _, _, _)
BiasTokens(acc, ids, j, k) ==
    IF j > Len(ids) THEN acc
    ELSE BiasTokens([logits |-> [acc.logits EXCEPT ![ids[j]] = AddScore(@, acc.bias)],
                     bias |-> Halve(acc.bias),
                     added |-> Append(acc.added, <<k, ids[j], acc.bias>>)],
                    ids, j + 1, k)

\* the loop over self.byte_patterns
RECURSIVE BiasPatterns(_, _, _, _, _)
BiasPatterns(acc, toks, patterns, k, byte_string) ==
    IF k > Len(patterns) THEN acc
    ELSE LET p == patterns[k]
         IN  IF StartsWith(p, byte_string) /\ Len(p) > Len(byte_string)
             THEN BiasPatterns(
                      BiasTokens(acc, get_next_tokens(toks, Drop(p, Len(byte_string))), 1, k),
                      toks, patterns, k + 1, byte_string)
             ELSE BiasPatterns(acc, toks, patterns, k + 1, byte_string)

\* the score every token starts from when force is set
ForcedScore == NegInf

\* MockEngine.get_logits with generator state g: the logits, the generator
\* state after the call, and the biases added
get_logits(toks, frc, patterns, g, token_ids) ==
    LET byte_string == Decode(toks, token_ids)
        drawn == standard_normal(g, Len(toks), <<>>)
        mask == valid_mask(toks)
        logits == IF frc
                  THEN [i \in TokenIds(toks) |-> ForcedScore]
                  ELSE [i \in TokenIds(toks) |-> drawn.values[i + 1] * mask[i]]
        biased == BiasPatterns([logits |-> logits, bias |-> BiasBase, added |-> <<>>],
                               toks, patterns, 1, byte_string)
    IN  [logits |-> biased.logits,
         rng |-> IF frc THEN g ELSE drawn.state,
         added |-> biased.added]

(***************************************************************************)
(* softmax and MockEngine.get_per_token_topk_probs                         *)
(***************************************************************************)
MaxScore(logits) == CHOOSE m \in Range(logits) : \A x \in Range(logits) : x <= m

NaN == [kind |-> "nan", num |-> 0, den |-> <<>>]

One == [kind |-> "one", num |-> 0, den |-> <<>>]

Unset == [kind |-> "unset", num |-> 0, den |-> <<>>]

\* softmax(logits): the entry of id i stands for exp(num) / sum of exp(den[j]),
\* the logits shifted by their maximum; all -inf gives nan everywhere
softmax(logits) ==
    LET m == MaxScore(logits)
        sh(x) == IF x = NegInf THEN NegInf ELSE x - m
    IN  IF m = NegInf THEN [i \in DOMAIN logits |-> NaN]
        ELSE [i \in DOMAIN logits |->
                 [kind |-> "softmax", num |-> sh(logits[i]),
                  den |-> [j \in DOMAIN logits |-> sh(logits[j])]]]

\* np.argsort(_logits): ids by ascending score.  Equal scores come out in
\* an order the sort routine of the build fixes: by id, or by id reversed.
Before(logits, ties, i, j) ==
    \/ logits[i] < logits[j]
    \/ logits[i] = logits[j] /\ (IF ties = "index" THEN i < j ELSE i > j)

RECURSIVE argsort(_, _, _)
argsort(logits, ties, S) ==
    IF S = {} THEN <<>>
    ELSE LET m == CHOOSE i \in S : \A j \in S \ {i} : Before(logits, ties, i, j)
         IN  <<m>> \o argsort(logits, ties, S \ {m})

Reverse(s) == [i \in 1 .. Len(s) |-> s[Len(s) + 1 - i]]

\* a[-top_k:]
LastK(a, top_k) ==
    IF top_k = 0 \/ top_k >= Len(a) THEN a
    ELSE SubSeq(a, Len(a) - top_k + 1, Len(a))

\* top_k_indices after the append of the token actually present
top_k_indices(logits, ties, top_k, actual) ==
    LET top == Reverse(LastK(argsort(logits, ties, DOMAIN logits), top_k))
    IN  IF actual \in Range(top) THEN top ELSE Append(top, actual)

\* token_id when the entry of the position is built: the loop over
\* top_k_indices uses the name token_id, and leaves its last element in it
ReportedId(indices, actual) == indices[Len(indices)]

GenToken(toks, probs, id) == [token_id |-> id, prob |-> probs[id], bytes |-> Tok(toks, id)]

\* the loop over positions i (0-based) of the walked sequence; w carries the
\* result list, the generator state, and the prefixes passed to get_logits
\* with the logits returned.  A token whose bytes are no UTF-8 text ends the
\* walk with the decode error.
RECURSIVE Walked(_, _, _, _, _, _, _, _)
Walked(w, toks, frc, patterns, ties, token_ids, top_k, i) ==
    IF i >= Len(token_ids) \/ w.error # "none" THEN w
    ELSE LET actual == token_ids[i + 1]
             prefix == SubSeq(token_ids, 1, i)
             r == get_logits(toks, frc, patterns, w.rng, prefix)
             probs == softmax(r.logits)
             indices == top_k_indices(r.logits, ties, top_k, actual)
             token_id == ReportedId(indices, actual)
             entry == [token_id |-> token_id, prob |-> probs[token_id],
                       bytes |-> Tok(toks, token_id),
                       top_k |-> [n \in 1 .. Len(indices) |-> GenToken(toks, probs, indices[n])]]
             ok == \A n \in 1 .. Len(indices) : ValidUtf8(Tok(toks, indices[n]))
         IN  Walked([result |-> IF ok THEN Append(w.result, entry) ELSE w.result,
                     rng |-> r.rng,
                     prefixes |-> Append(w.prefixes, prefix),
                     logits |-> Append(w.logits, r.logits),
                     error |-> IF ok THEN "none" ELSE "UnicodeDecodeError"],
                    toks, frc, patterns, ties, token_ids, top_k, i + 1)

\* MockEngine.get_per_token_topk_probs with generator state g; the
\* tokenizer's bos_token is never None
get_per_token_topk_probs(toks, frc, patterns, ties, g, ids, top_k) ==
    IF Len(ids) = 0
    THEN [result |-> <<>>, rng |-> g, prefixes |-> <<>>, logits |-> <<>>,
          error |-> "none", walked |-> <<>>, added_bos |-> FALSE]
    ELSE LET added_bos == ids[1] # bos_token_id
             token_ids == IF added_bos THEN <<bos_token_id>> \o ids ELSE ids
             entry0 == [token_id |-> token_ids[1], prob |-> One,
                        bytes |-> Tok(toks, token_ids[1]),
                        top_k |-> <<[token_id |-> token_ids[1], prob |-> Unset,
                                    bytes |-> Tok(toks, token_ids[1])]>>]
             ok0 == ValidUtf8(Tok(toks, token_ids[1]))
             w == Walked([result |-> IF ok0 THEN <<entry0>> ELSE <<>>, rng |-> g,
                          prefixes |-> <<>>, logits |-> <<>>,
                          error |-> IF ok0 THEN "none" ELSE "UnicodeDecodeError"],
                         toks, frc, patterns, ties, token_ids, top_k, 1)
         IN  [result |-> IF w.error # "none" THEN <<>>
                         ELSE IF added_bos THEN Tail(w.result) ELSE w.result,
              rng |-> w.rng, prefixes |-> w.prefixes, logits |-> w.logits,
              error |-> w.error, walked |-> token_ids, added_bos |-> added_bos]

(***************************************************************************)
(* SpecEngine: one MockEngine over the Mock vocabulary                     *)
(***************************************************************************)
Engines == {1, 2}

\* "ab"; "ab" and "as"; "<s>ab"; "<s>ab" and "<s>a"; no pattern
PatternLists ==
    { << <<97, 98>> >>,
      << <<97, 98>>, <<97, 115>> >>,
      << <<60, 115, 62, 97, 98>> >>,
      << <<60, 115, 62, 97, 98>>, <<60, 115, 62, 97>> >>,
      <<>> }

\* In the Mock table "<s>" is id 0, "ab" 2, "a" 12, "b" 13, the byte 200 15.
\* The prefixes passed to get_logits: empty, "a", "<s>", "<s>a", "b", "ab",
\* the byte 200.
Prefixes ==
    { <<>>, <<12>>, <<0>>, <<0, 12>>, <<13>>, <<2>>, <<15>> }

\* The sequences passed to get_per_token_topk_probs: with and without a
\* leading "<s>", on and off the patterns, with a byte that is no text.
TokenIdLists ==
    { <<>>, <<0>>, <<2>>, <<0, 2>>, <<0, 12>>, <<12, 13>>, <<0, 12, 13>>, <<13, 15>> }

TopKs == {1, 2}

InitEngine ==
    /\ tokens = MockTokens
    /\ byte_trie = TokenizerTrie(tokens)
    /\ force \in BOOLEAN
    /\ byte_patterns \in PatternLists
    /\ argsort_ties \in {"index", "reversed"}
    /\ rng = [e \in Engines |-> Seed]
    /\ log = [e \in Engines |-> <<>>]
    /\ op = NoOp
    /\ calls = 0
    /\ first = <<>>

\* engine.get_logits(token_ids)
GetLogits(token_ids) ==
    LET r == get_logits(tokens, force, byte_patterns, rng[1], token_ids)
    IN  /\ rng' = [rng EXCEPT ![1] = r.rng]
        /\ op' = [name |-> "get_logits", token_ids |-> token_ids, top_k |-> 0, out |-> r]
        /\ UNCHANGED <<tokens, byte_trie, first, force, byte_patterns, log, calls,
                       argsort_ties>>

\* engine.get_per_token_topk_probs(token_ids, top_k)
GetPerTokenTopkProbs(token_ids, top_k) ==
    LET r == get_per_token_topk_probs(tokens, force, byte_patterns, argsort_ties,
                                      rng[1], token_ids, top_k)
    IN  /\ rng' = [rng EXCEPT ![1] = r.rng]
        /\ op' = [name |-> "get_per_token_topk_probs", token_ids |-> token_ids,
                  top_k |-> top_k, out |-> r]
        /\ UNCHANGED <<tokens, byte_trie, first, force, byte_patterns, log, calls,
                       argsort_ties>>

NextEngine ==
    \/ \E token_ids \in Prefixes : GetLogits(token_ids)
    \/ \E token_ids \in TokenIdLists, top_k \in TopKs :
          GetPerTokenTopkProbs(token_ids, top_k)

SpecEngine == InitEngine /\ [][NextEngine]_vars

\* the byte string of the prefix is a proper prefix of pattern p
ProperPrefixOf(p, token_ids) ==
    LET byte_string == Decode(tokens, token_ids)
    IN  StartsWith(p, byte_string) /\ Len(p) > Len(byte_string)

\* the ids _get_next_tokens yields for the unconsumed suffix of p
NextIds(p, token_ids) ==
    Range(get_next_tokens(tokens, Drop(p, Len(Decode(tokens, token_ids)))))

\* C1: with force set and one bias pattern p, get_logits on a prefix whose
\* bytes are a proper prefix of p gives a finite, positively biased score to
\* the tokens that start the unconsumed suffix of p and -inf to every other.
ForcedLogitsFollowPattern ==
    (op.name = "get_logits" /\ force /\ Len(byte_patterns) = 1
     /\ ProperPrefixOf(byte_patterns[1], op.token_ids)) =>
        \A i \in TokenIds(tokens) :
            IF i \in NextIds(byte_patterns[1], op.token_ids)
            THEN op.out.logits[i] # NegInf /\ op.out.logits[i] > 0
            ELSE op.out.logits[i] = NegInf

RECURSIVE Pow2(_)
Pow2(n) == IF n = 0 THEN 1 ELSE 2 * Pow2(n - 1)

\* the patterns up to the k-th that match the prefix
MatchingUpTo(k, token_ids) ==
    {m \in 1 .. k : ProperPrefixOf(byte_patterns[m], token_ids)}

\* C2: the bias is halved once per matching pattern: every token yielded for
\* the k-th matching pattern gets 100.0 / 2^(k-1).
BiasHalvedPerPattern ==
    op.name = "get_logits" =>
        \A n \in 1 .. Len(op.out.added) :
            LET a == op.out.added[n]
                k == Cardinality(MatchingUpTo(a[1], op.token_ids))
            IN  a[3] * Pow2(k - 1) = BiasBase

\* the entry of position i (0-based, i >= 1) of the walked sequence
EntryAt(i) == op.out.result[IF op.out.added_bos THEN i ELSE i + 1]

\* C3: for top_k >= 1 the entry of every position i >= 1 reports the token
\* at that position, with the probability softmax gives it under the logits
\* of the prefix before it, and its top_k list has an entry for that token.
TrueTokenReported ==
    (op.name = "get_per_token_topk_probs" /\ op.top_k >= 1 /\ op.out.error = "none") =>
        \A i \in 1 .. Len(op.out.walked) - 1 :
            LET actual == op.out.walked[i + 1]
                e == EntryAt(i)
            IN  /\ op.out.prefixes[i] = SubSeq(op.out.walked, 1, i)
                /\ e.token_id = actual
                /\ e.prob = softmax(op.out.logits[i])[actual]
                /\ \E n \in 1 .. Len(e.top_k) : e.top_k[n].token_id = actual

\* C10: get_per_token_topk_probs returns one entry per token of its input,
\* entry j for input token j; a leading "<s>" gets probability 1.0 and no
\* get_logits call, a missing one is prepended and its entry stripped; and
\* get_logits is called once per remaining position, on growing prefixes.
OneEntryPerInputToken ==
    op.name = "get_per_token_topk_probs" =>
        LET ids == op.token_ids
            out == op.out
        IN  /\ out.error = "none"
            /\ Len(out.result) = Len(ids)
            /\ \A j \in 1 .. Len(out.result) : out.result[j].token_id = ids[j]
            /\ (ids # <<>> /\ ids[1] = bos_token_id) =>
                  /\ out.result[1].prob = One
                  /\ Len(out.prefixes) = Len(ids) - 1
            /\ (ids # <<>> /\ ids[1] # bos_token_id) =>
                  Len(out.prefixes) = Len(ids)
            /\ \A n \in 1 .. Len(out.prefixes) :
                  out.prefixes[n] = SubSeq(out.walked, 1, n)

(***************************************************************************)
(* SpecEngines: two MockEngine instances built from the same arguments     *)
(***************************************************************************)
MaxCalls == 2

\* self._rand_generator: the generator an engine instance draws from
SharedGenerator(e) == 1

Generator(e) == e

InitEngines ==
    /\ tokens = MockTokens
    /\ byte_trie = TokenizerTrie(tokens)
    /\ force \in BOOLEAN
    /\ byte_patterns \in { <<>>, << <<97, 98>> >>, << <<97, 98>>, <<97, 115>> >> }
    /\ argsort_ties = "index"
    /\ rng = [e \in Engines |-> Seed]
    /\ log = [e \in Engines |-> <<>>]
    /\ op = NoOp
    /\ calls = 0
    /\ first = <<>>

\* get_logits(token_ids) on engine instance e; log[e] keeps its calls
EngineGetLogits(e, token_ids) ==
    LET r == get_logits(tokens, force, byte_patterns, rng[Generator(e)], token_ids)
    IN  /\ Len(log[e]) < MaxCalls
        /\ rng' = [rng EXCEPT ![Generator(e)] = r.rng]
        /\ log' = [log EXCEPT ![e] = Append(@, [token_ids |-> token_ids, logits |-> r.logits])]
        /\ UNCHANGED <<tokens, byte_trie, first, force, byte_patterns, op, calls,
                       argsort_ties>>

NextEngines ==
    \E e \in Engines, token_ids \in { <<>>, <<12>>, <<13>> } : EngineGetLogits(e, token_ids)

SpecEngines == InitEngines /\ [][NextEngines]_vars

\* C8: two engines built alike and given the same get_logits calls in the
\* same order return the same logits at every call.
Reproducible ==
    \A j \in 1 .. Len(log[1]) :
        (j <= Len(log[2])
         /\ \A m \in 1 .. j : log[1][m].token_ids = log[2][m].token_ids)
            => log[1][j].logits = log[2][j].logits

\* both engines took the same two calls, the random draws of the second
\* differing from those of the first
WitnessReproducible ==
    /\ ~force
    /\ Len(log[1]) = 2
    /\ Len(log[2]) = 2
    /\ \A m \in 1 .. 2 : log[1][m].token_ids = log[2][m].token_ids
    /\ log[1][1].token_ids = log[1][2].token_ids
    /\ log[1][1].logits # log[1][2].logits
    /\ log[2][2].logits = log[1][2].logits

====
